---- MODULE Spec2Model ----
(***************************************************************************)
(* Clock-level model of the no2amaranth wrappers for the Nitro muACM core  *)
(* (src/src/no2amaranth/amaranth.py) and of the iCEBreaker Bitsy loopback  *)
(* gateware (src/examples/amaranth_icebreaker_bitsy_muacm.py).             *)
(*                                                                         *)
(* Every clock domain is one action: an edge of the domain updates all the *)
(* registers of that domain at once from the values they had before the    *)
(* edge, and the environment living in that domain picks the inputs it     *)
(* drives during the next cycle.  Domains tick independently, so any       *)
(* frequency ratio and phase relation is an interleaving of the actions.   *)
(***************************************************************************)
EXTENDS Integers, Sequences, FiniteSets, TLC

\* ------------------------------------------------------------------ bounds
MaxWords == 3          \* words a producer presents in one behaviour
FifoDepth == 2         \* fifo_depth the buffered wrapper is built with
PorHorizon == 132      \* por edges followed after the por reset is released
MaxPulses == 3         \* usb_48 cycles in which the core raises o_bootloader
MaxPeriod == 3         \* longest clock period, in time units
MetaWords == 2         \* words presented while first stages may be unsettled

\* Data bytes the environments draw from (8-bit values).
DataSet == {90, 165}
Words   == DataSet \X BOOLEAN
\* Words the producers of the buffered wrapper draw from.
BufWords == {<<90, FALSE>>, <<165, TRUE>>}

IsPrefix(s, t) == /\ Len(s) <= Len(t)
                  /\ \A i \in 1..Len(s) : s[i] = t[i]

\* ------------------------------------------------------------------ state
VARIABLES
    xclk,        \* registers of one stand-alone NitroMuAcmXClk
    in_valid,    \* producer side of the interface under study
    in_data,
    in_last,
    out_ready,   \* consumer side of the interface under study
    in_tick,     \* parity of the number of in_ (sync) edges so far
    out_tick,    \* parity of the number of out (usb_48) edges so far
    inSeq,       \* history: words transferred at the in side
    outSeq,      \* history: words transferred at the out side
    fin,         \* NitroMuAcmBuffered: fifo_in
    fout,        \* NitroMuAcmBuffered: fifo_out
    xin,         \* NitroMuAcmAsync: adapter sync -> usb_48
    xout,        \* NitroMuAcmAsync: adapter usb_48 -> sync
    core_in_ready,   \* muacm o_in_ready
    core_out_valid,  \* muacm o_out_valid
    core_out_data,   \* muacm o_out_data
    core_out_last,   \* muacm o_out_last
    coreInSeq,   \* history: words transferred into the muacm in port
    coreOutSeq,  \* history: words transferred out of the muacm out port
    popSeq,      \* history: words popped from fifo_in
    pll_locked,  \* SB_PLL40_2F_PAD LOCK
    por_count,   \* LoopbackTest: power-on-reset counter (8 bits)
    por_cycles,  \* history: por edges since the por reset was released
    core_bootloader_req,  \* muacm o_bootloader
    ps_boot,     \* NitroMuAcmAsync: registers of the PulseSynchronizer
    reboot,      \* LoopbackTest: sticky warm-boot flag
    nSrc,        \* history: usb_48 cycles with o_bootloader high
    nDst,        \* history: sync cycles with bootloader_req high
    rst_sync,    \* LoopbackTest: flops of the two ResetSynchronizers
    inst,        \* wrapper objects of a design: parameters, patched core
    platform,    \* build platform: extra files, muacm instances, failure
    meta,        \* first synchronizer stages sampled during a transition
    pace         \* history: cycles between transfers at the out side

xvars    == <<xclk, in_tick, out_tick>>
envvars  == <<in_valid, in_data, in_last, out_ready>>
corevars == <<core_in_ready, core_out_valid, core_out_data, core_out_last>>
bufvars  == <<fin, fout, xin, xout, corevars, coreInSeq, coreOutSeq, popSeq>>
porvars  == <<pll_locked, por_count, por_cycles, rst_sync>>
bootvars == <<core_bootloader_req, ps_boot, reboot, nSrc, nDst>>
auxvars  == <<inst, platform, meta, pace>>

vars == <<xclk, in_valid, in_data, in_last, out_ready, in_tick, out_tick,
          inSeq, outSeq, bufvars, porvars, bootvars, auxvars>>

\* ------------------------------------------------------- NitroMuAcmXClk
\* Reset values of the eight registers of the adapter.
XClkInit == [ send_in |-> FALSE, ack_sync_in0 |-> FALSE, ack_sync_in1 |-> FALSE,
              in_ready |-> FALSE,
              send_sync_out0 |-> FALSE, send_sync_out1 |-> FALSE,
              out_valid |-> FALSE, ack_out |-> FALSE ]

\* The in_ edge with in_ready following the level of the synchronized ack
\* instead of its rising edge.
XClkInEdgeReadyLevel(x, valid) ==
    [ x EXCEPT
        !.send_in      = (x.send_in \/ (valid /\ ~x.in_ready)) /\ ~x.ack_sync_in0,
        !.ack_sync_in1 = x.ack_sync_in0,
        !.ack_sync_in0 = x.ack_out,
        !.in_ready     = x.ack_sync_in0 ]

\* m.d.in_ : one edge of the in_ domain, valid being the in_valid input.
XClkInEdge(x, valid) ==
    [ x EXCEPT
        !.send_in      = (x.send_in \/ (valid /\ ~x.in_ready)) /\ ~x.ack_sync_in0,
        !.ack_sync_in1 = x.ack_sync_in0,
        !.ack_sync_in0 = x.ack_out,
        !.in_ready     = x.ack_sync_in0 /\ ~x.ack_sync_in1 ]

\* The out edge with out_valid set by the level of the synchronized send flag
\* instead of its rising edge.
XClkOutEdgeValidLevel(x, ready) ==
    [ x EXCEPT
        !.send_sync_out1 = x.send_sync_out0,
        !.send_sync_out0 = x.send_in,
        !.out_valid      = (x.out_valid /\ ~ready) \/ x.send_sync_out0,
        !.ack_out        = (x.ack_out /\ x.send_sync_out0)
                              \/ (x.out_valid /\ ready) ]

\* The out edge with ack_out a one-cycle pulse, not held until the send flag
\* is seen low.
XClkOutEdgeAckPulse(x, ready) ==
    [ x EXCEPT
        !.send_sync_out1 = x.send_sync_out0,
        !.send_sync_out0 = x.send_in,
        !.out_valid      = (x.out_valid /\ ~ready)
                              \/ (x.send_sync_out0 /\ ~x.send_sync_out1),
        !.ack_out        = x.out_valid /\ ready ]

\* m.d.out : one edge of the out domain, ready being the out_ready input.
XClkOutEdge(x, ready) ==
    [ x EXCEPT
        !.send_sync_out1 = x.send_sync_out0,
        !.send_sync_out0 = x.send_in,
        !.out_valid      = (x.out_valid /\ ~ready)
                              \/ (x.send_sync_out0 /\ ~x.send_sync_out1),
        !.ack_out        = (x.ack_out /\ x.send_sync_out0)
                              \/ (x.out_valid /\ ready) ]

\* Both domains see an edge at the same instant (the same clock, or two
\* clocks whose edges coincide): each register is updated from the values the
\* other domain's registers had before the edge.
XClkBothEdge(x, valid, ready) ==
    [ XClkInEdge(x, valid) EXCEPT
        !.send_sync_out1 = XClkOutEdge(x, ready).send_sync_out1,
        !.send_sync_out0 = XClkOutEdge(x, ready).send_sync_out0,
        !.out_valid      = XClkOutEdge(x, ready).out_valid,
        !.ack_out        = XClkOutEdge(x, ready).ack_out ]

\* m.d.comb : data and last go straight across.
XClkOutWord(data, last) == <<data, last>>

\* One step of an adapter whose in_ domain sees an edge iff inTick and whose
\* out domain sees an edge iff outTick.
XClkStep(x, inTick, outTick, valid, ready) ==
    IF inTick /\ outTick THEN XClkBothEdge(x, valid, ready)
    ELSE IF inTick THEN XClkInEdge(x, valid)
    ELSE IF outTick THEN XClkOutEdge(x, ready)
    ELSE x

\* ------------------------------------------------- SyncFIFOBuffered(9, d)
\* The library FIFO the wrapper instantiates: an inner queue of d-1 words
\* whose registered read port is the last storage element.  q is the inner
\* queue (oldest first), r_data/r_rdy the output register.
FifoInit == [ q |-> <<>>, r_data |-> 0, r_rdy |-> FALSE ]

\* w_rdy of a FIFO built with the given depth.
FifoWRdyAt(f, depth) == Len(f.q) # depth - 1

FifoWRdy(f) == FifoWRdyAt(f, FifoDepth)

FifoLevel(f) == Len(f.q) + (IF f.r_rdy THEN 1 ELSE 0)

\* Words held, oldest first.
FifoContents(f) == IF f.r_rdy THEN <<f.r_data>> \o f.q ELSE f.q

\* One edge of a FIFO built with the given depth.
FifoEdgeAt(f, depth, w_en, w_data, r_en) ==
    LET inner_r_en == Len(f.q) # 0 /\ (~f.r_rdy \/ r_en)
        do_write   == FifoWRdyAt(f, depth) /\ w_en
        q1         == IF inner_r_en THEN Tail(f.q) ELSE f.q
    IN  [ q      |-> IF do_write THEN Append(q1, w_data % 512) ELSE q1,
          r_data |-> IF inner_r_en THEN Head(f.q) ELSE f.r_data,
          r_rdy  |-> IF inner_r_en THEN TRUE
                     ELSE IF r_en THEN FALSE ELSE f.r_rdy ]

FifoEdge(f, w_en, w_data, r_en) == FifoEdgeAt(f, FifoDepth, w_en, w_data, r_en)

\* --------------------------------------------------- NitroMuAcmBuffered
Bit(b) == IF b THEN 1 ELSE 0

\* The read side taking bit 7 for last.
CoreInWordBit7(r_data) == <<r_data % 256, (r_data \div 128) % 2 = 1>>

\* fin.w_data[0:8] = in_data, fin.w_data[8] = in_last
FinWData(data, last) == (data % 256) + 256 * Bit(last)

\* core.in_data = fin.r_data[0:8], core.in_last = fin.r_data[8]
CoreInWord(r_data) == <<r_data % 256, (r_data \div 256) % 2 = 1>>

\* fout.w_data[0:8] = core.out_data, fout.w_data[8] = core.out_last
FoutWData(data, last) == (data % 256) + 256 * Bit(last)

\* out_data = fout.r_data[0:8], out_last = fout.r_data[8]
OutWord(r_data) == <<r_data % 256, (r_data \div 256) % 2 = 1>>

\* in_ready taken from the read-ready of fifo_in instead of its write-ready.
BufInReadyFromRead == fin.r_rdy

\* self.in_ready = fin.w_rdy
BufInReady == FifoWRdy(fin)

\* self.out_valid = fout.r_rdy
BufOutValid == fout.r_rdy

\* NitroMuAcmAsync: the word at the muacm in port is xin's out_data/out_last,
\* xin's in_data/in_last being the Async wrapper's in port.
MuacmInWord == XClkOutWord(CoreInWord(fin.r_data)[1], CoreInWord(fin.r_data)[2])

\* NitroMuAcmAsync: the Async wrapper's out port is xout's out_data/out_last,
\* xout's in_data/in_last being the muacm out port.
XoutOutWord == XClkOutWord(core_out_data, core_out_last)

BufRegsInit ==
    /\ fin = FifoInit
    /\ fout = FifoInit
    /\ xin = XClkInit
    /\ xout = XClkInit
    /\ coreInSeq = <<>>
    /\ coreOutSeq = <<>>
    /\ popSeq = <<>>

\* The muacm core out of reset: nothing offered, nothing accepted.
CoreIdle ==
    /\ core_in_ready = FALSE
    /\ core_out_valid = FALSE
    /\ core_out_data = 0
    /\ core_out_last = FALSE

\* ------------------------------------ power-on reset and bootloader pulse
\* Reset values of the PulseSynchronizer("usb_48", "sync"): the toggle in the
\* source domain, the two stages of its FFSynchronizer and the delayed copy
\* in the destination domain.
PulseSyncInit == [ i_toggle |-> FALSE, stage0 |-> FALSE, stage1 |-> FALSE,
                   r_toggle |-> FALSE ]

\* Reset values of the two flops of a ResetSynchronizer: both flops are set,
\* so the reset it drives is asserted.
RstSyncInit == <<TRUE, TRUE>>

PorRegsInit ==
    /\ pll_locked = FALSE
    /\ por_count = 0
    /\ por_cycles = 0
    /\ rst_sync = [usb_48 |-> RstSyncInit, sync |-> RstSyncInit]

BootRegsInit ==
    /\ core_bootloader_req = FALSE
    /\ ps_boot = PulseSyncInit
    /\ reboot = FALSE
    /\ nSrc = 0
    /\ nDst = 0

\* ------------------------------------------- wrapper objects and platform
\* Python values are written as their text; None is the value kwargs.get()
\* gives for a parameter the caller left out.
None == "None"

Insts == {1, 2}

\* No customization parameter supplied.
NoKwargs == [ vid |-> None, pid |-> None, vendor |-> None, product |-> None,
              serial |-> None, no_dfu_rt |-> None ]

\* The text of a file that does not exist.
NoText == [ vid |-> "", pid |-> "", vendor |-> "", product |-> "",
            serial |-> "", dfu_rt |-> "" ]

\* A wrapper the design does not contain.
InstAbsent == [ kind |-> "NitroMuAcmSync", kw |-> NoKwargs, state |-> "absent",
                calls |-> <<>>, ip_name |-> 0, ip_text |-> NoText,
                objs |-> {} ]

\* A platform before any elaboration: no extra file, no instance.
PlatformInit == [ extra_files |-> [n \in {"muacm.v"} |-> NoText],
                  instances |-> {}, failed |-> FALSE ]

\* No synchronizer stage has sampled a signal while it changed.
MetaInit == [ send_fresh |-> FALSE, ack_fresh |-> FALSE,
              send_meta |-> FALSE, ack_meta |-> FALSE ]

\* Both clocks with period 1 and an edge due, no time elapsed.
PaceInit == [ pin |-> 1, pout |-> 1, tin |-> 1, tout |-> 1,
              gap |-> 0, last |-> 0 ]

AuxInit ==
    /\ inst = [i \in Insts |-> InstAbsent]
    /\ platform = PlatformInit
    /\ meta = MetaInit
    /\ pace = PaceInit

\* The registers of the wrapper (sync=False) over one step in which the sync
\* domain sees an edge iff s and the usb_48 domain iff u; iv, id, il, ordy
\* are the wrapper's in_valid, in_data, in_last and out_ready inputs.
BufRegs(s, u, iv, id, il, ordy) ==
    /\ fin'  = IF s THEN FifoEdge(fin, iv, FinWData(id, il), xin.in_ready)
                    ELSE fin
    /\ xin'  = XClkStep(xin, s, u, fin.r_rdy, core_in_ready)
    /\ xout' = XClkStep(xout, u, s, core_out_valid, FifoWRdy(fout))
    /\ fout' = IF s THEN FifoEdge(fout, xout.out_valid,
                                  FoutWData(XoutOutWord[1], XoutOutWord[2]), ordy)
                    ELSE fout
    /\ inSeq' = IF s /\ iv /\ BufInReady
                THEN Append(inSeq, <<id, il>>) ELSE inSeq
    /\ popSeq' = IF s /\ xin.in_ready /\ fin.r_rdy
                 THEN Append(popSeq, CoreInWord(fin.r_data)) ELSE popSeq
    /\ coreInSeq' = IF u /\ xin.out_valid /\ core_in_ready
                    THEN Append(coreInSeq, MuacmInWord) ELSE coreInSeq
    /\ coreOutSeq' = IF u /\ core_out_valid /\ xout.in_ready
                     THEN Append(coreOutSeq, <<core_out_data, core_out_last>>)
                     ELSE coreOutSeq
    /\ outSeq' = IF s /\ BufOutValid /\ ordy
                 THEN Append(outSeq, OutWord(fout.r_data)) ELSE outSeq

\* ------------------------------------------ stand-alone adapter, with env
\* A byte-stream producer: a word that was presented and not transferred is
\* held; otherwise the producer is free to idle or to present a new word.
ProducerNext(valid, ready, data, last, budget, nv, nd, nl) ==
    IF valid /\ ~ready
    THEN nv = valid /\ nd = data /\ nl = last
    ELSE /\ nv \in BOOLEAN
         /\ nv => budget
         /\ nd \in DataSet
         /\ nl \in BOOLEAN

\* The same producer, drawing its words from BufWords and leaving the last
\* word it drove on the data lines while it idles.
BufProducerNext(valid, ready, data, last, budget, nv, nd, nl) ==
    IF valid /\ ~ready
    THEN nv = valid /\ nd = data /\ nl = last
    ELSE \/ nv = FALSE /\ nd = data /\ nl = last
         \/ budget /\ nv = TRUE /\ \E w \in BufWords : nd = w[1] /\ nl = w[2]

Presented == IF in_valid THEN Append(inSeq, <<in_data, in_last>>) ELSE inSeq

XInit ==
    /\ xclk = XClkInit
    /\ in_valid = FALSE
    /\ in_data \in DataSet
    /\ in_last \in BOOLEAN
    /\ out_ready \in BOOLEAN
    /\ in_tick = FALSE
    /\ out_tick = FALSE
    /\ inSeq = <<>>
    /\ outSeq = <<>>
    /\ BufRegsInit
    /\ CoreIdle
    /\ PorRegsInit
    /\ BootRegsInit
    /\ AuxInit

XInEdge ==
    /\ xclk' = XClkInEdge(xclk, in_valid)
    /\ inSeq' = IF in_valid /\ xclk.in_ready
                THEN Append(inSeq, <<in_data, in_last>>) ELSE inSeq
    /\ ProducerNext(in_valid, xclk.in_ready, in_data, in_last,
                    Len(inSeq') < MaxWords, in_valid', in_data', in_last')
    /\ in_tick' = ~in_tick
    /\ UNCHANGED <<out_ready, out_tick, outSeq, bufvars, porvars, bootvars, auxvars>>

XOutEdge ==
    /\ xclk' = XClkOutEdge(xclk, out_ready)
    /\ outSeq' = IF xclk.out_valid /\ out_ready
                 THEN Append(outSeq, XClkOutWord(in_data, in_last)) ELSE outSeq
    /\ out_ready' \in BOOLEAN
    /\ out_tick' = ~out_tick
    /\ UNCHANGED <<in_valid, in_data, in_last, in_tick, inSeq, bufvars,
                   porvars, bootvars, auxvars>>

XBothEdge ==
    /\ xclk' = XClkBothEdge(xclk, in_valid, out_ready)
    /\ inSeq' = IF in_valid /\ xclk.in_ready
                THEN Append(inSeq, <<in_data, in_last>>) ELSE inSeq
    /\ outSeq' = IF xclk.out_valid /\ out_ready
                 THEN Append(outSeq, XClkOutWord(in_data, in_last)) ELSE outSeq
    /\ ProducerNext(in_valid, xclk.in_ready, in_data, in_last,
                    Len(inSeq') < MaxWords, in_valid', in_data', in_last')
    /\ out_ready' \in BOOLEAN
    /\ in_tick' = ~in_tick
    /\ out_tick' = ~out_tick
    /\ UNCHANGED <<bufvars, porvars, bootvars, auxvars>>

XNext == XInEdge \/ XOutEdge \/ XBothEdge

SpecXClk == XInit /\ [][XNext]_vars

\* C1: the words transferred at the out side are the words presented at the
\* in side, in order: nothing dropped, duplicated or reordered.
StreamConserved == IsPrefix(inSeq, outSeq) /\ IsPrefix(outSeq, Presented)

StreamConservedWitness ==
    /\ Len(inSeq) = 2 /\ outSeq = inSeq /\ inSeq[1] # inSeq[2]

\* ------------------------------- buffered wrapper (sync=False), with env
\* Words presented so far by the two producers: the user of the wrapper's in
\* interface and the muacm core on its out port.
NPresented(iv, cv) == Len(inSeq) + Bit(iv) + Len(coreOutSeq) + Bit(cv)

BInit ==
    /\ xclk = XClkInit
    /\ in_valid = FALSE
    /\ in_data = 0
    /\ in_last = FALSE
    /\ out_ready \in BOOLEAN
    /\ in_tick = FALSE
    /\ out_tick = FALSE
    /\ inSeq = <<>>
    /\ outSeq = <<>>
    /\ BufRegsInit
    /\ CoreIdle
    /\ PorRegsInit
    /\ BootRegsInit
    /\ AuxInit

\* The user of the wrapper lives in the sync domain.
BufUserNext ==
    /\ BufProducerNext(in_valid, BufInReady, in_data, in_last,
                    NPresented(FALSE, core_out_valid) < MaxWords,
                    in_valid', in_data', in_last')
    /\ out_ready' \in BOOLEAN

\* The muacm core lives in the usb_48 domain; budget tells whether it may
\* still present a new word.
BufCoreNext(budget) ==
    /\ BufProducerNext(core_out_valid, xout.in_ready, core_out_data, core_out_last,
                    budget,
                    core_out_valid', core_out_data', core_out_last')
    /\ core_in_ready' \in BOOLEAN

BSyncEdge ==
    /\ BufRegs(TRUE, FALSE, in_valid, in_data, in_last, out_ready)
    /\ BufUserNext
    /\ UNCHANGED corevars
    /\ UNCHANGED <<xvars, porvars, bootvars, auxvars>>

BUsbEdge ==
    /\ BufRegs(FALSE, TRUE, in_valid, in_data, in_last, out_ready)
    /\ BufCoreNext(NPresented(in_valid, FALSE) < MaxWords)
    /\ UNCHANGED envvars
    /\ UNCHANGED <<xvars, porvars, bootvars, auxvars>>

BBothEdge ==
    /\ BufRegs(TRUE, TRUE, in_valid, in_data, in_last, out_ready)
    /\ BufUserNext
    /\ BufCoreNext(NPresented(in_valid', FALSE) < MaxWords)
    /\ UNCHANGED <<xvars, porvars, bootvars, auxvars>>

BNext == BSyncEdge \/ BUsbEdge \/ BBothEdge

SpecBuf == BInit /\ [][BNext]_vars

SeqMap(Op(_), q) == [i \in 1..Len(q) |-> Op(q[i])]

CorePresented ==
    IF core_out_valid
    THEN Append(coreOutSeq, <<core_out_data, core_out_last>>) ELSE coreOutSeq

\* Words that reached fifo_out: those already read at the wrapper's out
\* interface followed by those fifo_out still holds.
FoutDelivered == outSeq \o SeqMap(OutWord, FifoContents(fout))

\* C4: with sync=False every word accepted at the wrapper's in interface
\* reaches the muacm in port once and in order, every word the muacm core
\* emits reaches the wrapper's out interface once and in order, and fifo_in
\* pops exactly the words that were transferred to the core.
BufferedConserved ==
    /\ inSeq = popSeq \o SeqMap(CoreInWord, FifoContents(fin))
    /\ IsPrefix(popSeq, coreInSeq)
    /\ Len(coreInSeq) <= Len(popSeq) + 1
    /\ IsPrefix(coreInSeq, inSeq)
    /\ IsPrefix(coreOutSeq, FoutDelivered)
    /\ IsPrefix(FoutDelivered, CorePresented)

BufferedConservedWitness ==
    /\ Len(inSeq) = 2 /\ coreInSeq = inSeq /\ popSeq = inSeq
    /\ inSeq[1] # inSeq[2]
    /\ Len(coreOutSeq) = 1 /\ outSeq = coreOutSeq

\* C5: fifo_in never holds more than fifo_depth words and the wrapper's
\* in_ready is low whenever it holds fifo_depth words, so a word is accepted
\* only when there is room for it.
Backpressure ==
    /\ FifoLevel(fin) <= FifoDepth
    /\ FifoLevel(fin) = FifoDepth => ~BufInReady
    /\ Len(inSeq) = Len(popSeq) + FifoLevel(fin)

BackpressureWitness ==
    /\ FifoLevel(fin) = FifoDepth /\ in_valid /\ ~BufInReady
    /\ Len(inSeq) = FifoDepth /\ coreInSeq = <<>>

\* ------------------------------------------- Bitsy LoopbackTest: data path
\* muacm.in_data = muacm.out_data
LoopInData == OutWord(fout.r_data)[1]

\* in_last wired to the wrapper's out_last instead of 0.
LoopInLastEcho == OutWord(fout.r_data)[2]

\* muacm.in_last = 0
LoopInLast == FALSE

\* muacm.in_valid = muacm.out_valid
LoopInValid == BufOutValid

\* muacm.out_ready = muacm.in_ready
LoopOutReady == BufInReady

\* muacm.in_flush_time = 1
LoopFlushTime == TRUE

\* muacm.in_flush_now = 0
LoopFlushNow == FALSE

YInit == BInit

YSyncEdge ==
    /\ BufRegs(TRUE, FALSE, LoopInValid, LoopInData, LoopInLast, LoopOutReady)
    /\ UNCHANGED corevars
    /\ UNCHANGED envvars
    /\ UNCHANGED <<xvars, porvars, bootvars, auxvars>>

YUsbEdge ==
    /\ BufRegs(FALSE, TRUE, LoopInValid, LoopInData, LoopInLast, LoopOutReady)
    /\ BufCoreNext(Len(coreOutSeq) < MaxWords)
    /\ UNCHANGED envvars
    /\ UNCHANGED <<xvars, porvars, bootvars, auxvars>>

YBothEdge ==
    /\ BufRegs(TRUE, TRUE, LoopInValid, LoopInData, LoopInLast, LoopOutReady)
    /\ BufCoreNext(Len(coreOutSeq) < MaxWords)
    /\ UNCHANGED envvars
    /\ UNCHANGED <<xvars, porvars, bootvars, auxvars>>

YNext == YSyncEdge \/ YUsbEdge \/ YBothEdge

SpecBitsy == YInit /\ [][YNext]_vars

ClearLast(w) == <<w[1], FALSE>>

\* C10: in the loopback design a byte leaves the wrapper's out interface in
\* exactly the sync cycles in which a byte enters its in interface, the byte
\* entering has the data of the byte leaving and last = 0, fifo_in holds
\* every echoed byte until it is popped, flush-on-timeout is 1 and
\* flush-now is 0.
LoopbackEcho ==
    /\ inSeq = SeqMap(ClearLast, outSeq)
    /\ inSeq = popSeq \o SeqMap(CoreInWord, FifoContents(fin))
    /\ LoopFlushTime /\ ~LoopFlushNow

LoopbackEchoWitness ==
    /\ Len(outSeq) = 2 /\ outSeq[1][2] /\ ~outSeq[2][2]
    /\ coreInSeq = <<<<outSeq[1][1], FALSE>>, <<outSeq[2][1], FALSE>>>>

\* ------------------------------------------------ FIFO word packing alone
\* One word of any value is offered to each FIFO, written, moved to the
\* output register and read back, over edges of the sync domain.
PInit ==
    /\ xclk = XClkInit
    /\ in_valid = TRUE
    /\ in_data \in 0..255
    /\ in_last \in BOOLEAN
    /\ out_ready = FALSE
    /\ in_tick = FALSE
    /\ out_tick = FALSE
    /\ inSeq = <<>>
    /\ outSeq = <<>>
    /\ BufRegsInit
    /\ core_in_ready = FALSE
    /\ core_out_valid = TRUE
    /\ core_out_data = 255 - in_data
    /\ core_out_last = ~in_last
    /\ PorRegsInit
    /\ BootRegsInit
    /\ AuxInit

\* A sync edge of the two FIFOs alone: their write ports see the offered
\* words, r_en is the read enable of both.
PackEdge(r_en) ==
    /\ fin' = FifoEdge(fin, in_valid, FinWData(in_data, in_last), r_en)
    /\ fout' = FifoEdge(fout, core_out_valid,
                        FoutWData(XoutOutWord[1], XoutOutWord[2]), r_en)
    /\ inSeq' = IF in_valid /\ BufInReady
                THEN Append(inSeq, <<in_data, in_last>>) ELSE inSeq
    /\ coreOutSeq' = IF core_out_valid /\ FifoWRdy(fout)
                     THEN Append(coreOutSeq, <<core_out_data, core_out_last>>)
                     ELSE coreOutSeq
    /\ coreInSeq' = IF r_en /\ fin.r_rdy
                    THEN Append(coreInSeq, MuacmInWord) ELSE coreInSeq
    /\ outSeq' = IF r_en /\ BufOutValid
                 THEN Append(outSeq, OutWord(fout.r_data)) ELSE outSeq
    /\ in_valid' = (in_valid /\ ~BufInReady)
    /\ core_out_valid' = (core_out_valid /\ ~FifoWRdy(fout))
    /\ UNCHANGED <<in_data, in_last, out_ready, core_in_ready, core_out_data,
                   core_out_last, xin, xout, popSeq, xvars, porvars, bootvars, auxvars>>

PackWrite == (in_valid \/ core_out_valid) /\ PackEdge(FALSE)

PackShift == ~in_valid /\ ~core_out_valid /\ ~fin.r_rdy /\ PackEdge(FALSE)

PackRead  == fin.r_rdy /\ fout.r_rdy /\ PackEdge(TRUE)

PNext == PackWrite \/ PackShift \/ PackRead

SpecPack == PInit /\ [][PNext]_vars

\* The 9-bit word w carries data in bits 0..7 and last in bit 8.
Carries(w, word) ==
    /\ w \in 0..511
    /\ w % 256 = word[1]
    /\ (w \div 256 = 1) = word[2]

\* C6: the word a FIFO stores has the data byte in bits 0..7 and last in
\* bit 8, and reading it back gives the data and last that were written, in
\* the in and in the out direction.
PackRoundTrip ==
    /\ \A i \in 1..Len(FifoContents(fin)) :
          Carries(FifoContents(fin)[i], inSeq[i])
    /\ \A i \in 1..Len(FifoContents(fout)) :
          Carries(FifoContents(fout)[i], coreOutSeq[i])
    /\ IsPrefix(coreInSeq, inSeq)
    /\ IsPrefix(outSeq, coreOutSeq)

PackRoundTripWitness ==
    /\ coreInSeq = << <<255, TRUE>> >> /\ inSeq = coreInSeq
    /\ outSeq = << <<0, FALSE>> >> /\ coreOutSeq = outSeq

\* ------------------------------------------- LoopbackTest: power-on reset
\* The counter incrementing on every por edge.
PorCountFree(c) == (c + 1) % 256

\* m.d.por += por_count.eq(por_count + ~por_count[-1])   (8 bits)
PorCountNext(c) == (c + (1 - ((c \div 128) % 2))) % 256

\* m.d.comb += por_rst.eq(~por_count[-1])
PorRst(c) == (c \div 128) % 2 = 0

RInit ==
    /\ xclk = XClkInit
    /\ in_valid = FALSE
    /\ in_data = 0
    /\ in_last = FALSE
    /\ out_ready = FALSE
    /\ in_tick = FALSE
    /\ out_tick = FALSE
    /\ inSeq = <<>>
    /\ outSeq = <<>>
    /\ BufRegsInit
    /\ CoreIdle
    /\ PorRegsInit
    /\ BootRegsInit
    /\ AuxInit

\* The por domain without a reset input.
PorResetNever(locked) == FALSE

\* ResetSignal("por").eq(~pll_locked)
PorReset(locked) == ~locked

\* ResetSynchronizer(por_rst, domain=...): an edge of the domain's clock, r
\* being its two flops and arst its asynchronous input before the edge.
ResetSyncEdge(r, arst) == IF arst THEN <<TRUE, TRUE>> ELSE <<FALSE, r[1]>>

\* ResetSynchronizer: its flops are set as soon as arst is high.
ResetSyncAsync(r, arst) == IF arst THEN <<TRUE, TRUE>> ELSE r

\* ResetSignal("usb_48") and ResetSignal("sync"): the last flop of the
\* domain's ResetSynchronizer.
UsbRst == rst_sync.usb_48[2]

SyncRst == rst_sync.sync[2]

\* The PLL reports lock: ResetSignal("por") = ~pll_locked is released.
PllLock ==
    /\ ~pll_locked
    /\ pll_locked' = TRUE
    /\ UNCHANGED <<por_count, por_cycles, rst_sync>>
    /\ UNCHANGED <<xvars, envvars, inSeq, outSeq, bufvars, bootvars, auxvars>>

\* The PLL loses lock (reset button): the por domain is reset
\* asynchronously, por_rst is asserted and sets the flops of the two
\* ResetSynchronizers.
PllUnlock ==
    /\ pll_locked
    /\ pll_locked' = FALSE
    /\ por_count' = IF PorReset(pll_locked') THEN 0 ELSE por_count
    /\ por_cycles' = IF PorReset(pll_locked') THEN 0 ELSE por_cycles
    /\ rst_sync' = [ d \in {"usb_48", "sync"} |->
                       ResetSyncAsync(rst_sync[d], PorRst(por_count')) ]
    /\ UNCHANGED <<xvars, envvars, inSeq, outSeq, bufvars, bootvars, auxvars>>

\* An edge of clk24, the clock of the por and of the sync domain: the
\* counter steps unless the por reset holds it, and the ResetSynchronizer of
\* the sync domain shifts.
PorEdge ==
    /\ por_cycles < PorHorizon
    /\ por_count' = IF PorReset(pll_locked) THEN 0
                    ELSE PorCountNext(por_count)
    /\ por_cycles' = IF PorReset(pll_locked) THEN 0 ELSE por_cycles + 1
    /\ rst_sync' = [ rst_sync EXCEPT
                       !.sync = ResetSyncAsync(
                                   ResetSyncEdge(@, PorRst(por_count)),
                                   PorRst(por_count')) ]
    /\ UNCHANGED pll_locked
    /\ UNCHANGED <<xvars, envvars, inSeq, outSeq, bufvars, bootvars, auxvars>>

\* An edge of clk48, the clock of the usb_48 domain: its ResetSynchronizer
\* shifts.
UsbRstEdge ==
    /\ rst_sync' = [ rst_sync EXCEPT
                       !.usb_48 = ResetSyncEdge(@, PorRst(por_count)) ]
    /\ UNCHANGED <<pll_locked, por_count, por_cycles>>
    /\ UNCHANGED <<xvars, envvars, inSeq, outSeq, bufvars, bootvars, auxvars>>

RNext == PllLock \/ PllUnlock \/ PorEdge \/ UsbRstEdge

SpecPor == RInit /\ [][RNext]_vars

Min(a, b) == IF a < b THEN a ELSE b

\* C7: after k por edges with the por reset inactive the counter holds
\* min(k, 128), so por_rst is asserted during exactly the first 128 cycles;
\* the counter stays at 128 and por_rst does not come back while the por
\* reset stays inactive.
PorTiming ==
    /\ [](/\ por_count = Min(por_cycles, 128)
          /\ PorRst(por_count) = (por_cycles < 128))
    /\ [][(~PorRst(por_count) /\ pll_locked') => ~PorRst(por_count')]_vars

PorTimingWitness ==
    /\ pll_locked /\ por_cycles > 129 /\ por_count = 128 /\ ~PorRst(por_count)

\* C18: while the PLL lock is low the por domain is held in reset:
\* por_count is 0 and por_rst asserted, and the counter moves only with the
\* lock high; the resets of usb_48 and sync are asserted whenever por_rst
\* is, and each is released only at an edge of its own ResetSynchronizer,
\* with por_rst low and the first flop already clear.
ResetGated ==
    /\ [](~pll_locked => (por_count = 0 /\ PorRst(por_count)))
    /\ [](PorRst(por_count) => (UsbRst /\ SyncRst))
    /\ [][(por_count' # por_count /\ por_count' # 0) => pll_locked]_vars
    /\ [][(UsbRst /\ ~UsbRst')
             => (/\ ~PorRst(por_count) /\ ~rst_sync.usb_48[1]
                 /\ rst_sync'.sync = rst_sync.sync)]_vars
    /\ [][(SyncRst /\ ~SyncRst')
             => (/\ ~PorRst(por_count) /\ ~rst_sync.sync[1]
                 /\ rst_sync'.usb_48 = rst_sync.usb_48)]_vars

ResetGatedWitness ==
    /\ pll_locked /\ por_count = 128 /\ ~UsbRst /\ SyncRst
    /\ ~rst_sync.sync[1] /\ por_cycles = 129

\* ------------------------------------ bootloader request and warm boot
\* PulseSynchronizer: an edge of its source domain (usb_48), i being its
\* input.
PulseSyncSrcEdge(p, i) == [ p EXCEPT !.i_toggle = (p.i_toggle # i) ]

\* PulseSynchronizer: an edge of its destination domain (sync).
PulseSyncDstEdge(p) ==
    [ p EXCEPT !.stage0 = p.i_toggle, !.stage1 = p.stage0,
               !.r_toggle = p.stage1 ]

\* PulseSynchronizer: its output o.
PulseSyncO(p) == p.stage1 # p.r_toggle

PulseSyncStep(p, srcTick, dstTick, i) ==
    [ p EXCEPT
        !.i_toggle = IF srcTick THEN PulseSyncSrcEdge(p, i).i_toggle ELSE @,
        !.stage0   = IF dstTick THEN PulseSyncDstEdge(p).stage0 ELSE @,
        !.stage1   = IF dstTick THEN PulseSyncDstEdge(p).stage1 ELSE @,
        !.r_toggle = IF dstTick THEN PulseSyncDstEdge(p).r_toggle ELSE @ ]

\* bootloader_req taken straight from the core, without the synchronizer.
AsyncBootloaderReqRaw == core_bootloader_req

\* NitroMuAcmAsync: ps_boot.i = core.bootloader_req,
\* self.bootloader_req = ps_boot.o
AsyncBootloaderReq == PulseSyncO(ps_boot)

\* NitroMuAcmBuffered: self.bootloader_req = core.bootloader_req
BufBootloaderReq == AsyncBootloaderReq

\* The flag following bootloader_req instead of accumulating it.
RebootFollow(r, req) == req

\* m.d.sync += reboot.eq(reboot | muacm.bootloader_req)
RebootNext(r, req) == r \/ req

TInit == RInit

\* One step of the bootloader path; s: the sync domain sees an edge,
\* u: the usb_48 domain sees an edge.  The core lives in usb_48 and raises
\* o_bootloader in at most MaxPulses cycles.
BootStep(s, u) ==
    /\ ps_boot' = PulseSyncStep(ps_boot, u, s, core_bootloader_req)
    /\ reboot' = IF s THEN RebootNext(reboot, BufBootloaderReq) ELSE reboot
    /\ nDst' = IF s /\ BufBootloaderReq THEN nDst + 1 ELSE nDst
    /\ nSrc' = IF u /\ core_bootloader_req THEN nSrc + 1 ELSE nSrc
    /\ IF u THEN /\ core_bootloader_req' \in BOOLEAN
                 /\ core_bootloader_req' => nSrc' < MaxPulses
            ELSE UNCHANGED core_bootloader_req
    /\ in_tick' = (in_tick # s)
    /\ out_tick' = (out_tick # u)
    /\ UNCHANGED <<xclk, envvars, inSeq, outSeq, bufvars, porvars, auxvars>>

TSyncEdge == BootStep(TRUE, FALSE)

TUsbEdge == BootStep(FALSE, TRUE)

TBothEdge == BootStep(TRUE, TRUE)

TNext == TSyncEdge \/ TUsbEdge \/ TBothEdge

SpecBoot == TInit /\ [][TNext]_vars

\* Both clocks keep ticking, whatever their ratio.
FairBoot ==
    /\ TInit /\ [][TNext]_vars
    /\ WF_vars(TSyncEdge \/ TBothEdge)
    /\ WF_vars(TUsbEdge \/ TBothEdge)

\* C8: reboot is 0 as long as no sync cycle had bootloader_req high, is 1
\* from the sync edge that ends the first such cycle, and never returns
\* to 0.
RebootSticky ==
    /\ [](reboot <=> nDst > 0)
    /\ [][(in_tick' # in_tick /\ BufBootloaderReq) => reboot']_vars
    /\ [][reboot => reboot']_vars

RebootStickyWitness ==
    /\ reboot /\ nDst = 1 /\ nSrc = 1 /\ ~BufBootloaderReq
    /\ ps_boot.r_toggle /\ core_bootloader_req

\* C9: while the core has raised o_bootloader in one usb_48 cycle only, the
\* sync domain sees bootloader_req high in at most one cycle, never in two
\* consecutive cycles, and eventually in exactly one.
BootPulseOnce ==
    /\ [](nSrc <= 1 => nDst <= nSrc)
    /\ [][(nSrc' <= 1 /\ in_tick' # in_tick)
             => ~(AsyncBootloaderReq /\ AsyncBootloaderReq')]_vars
    /\ (nSrc = 1) ~> (nDst = 1 \/ nSrc > 1)

BootPulseOnceWitness ==
    /\ nSrc = 1 /\ nDst = 1 /\ ~core_bootloader_req
    /\ ps_boot.i_toggle /\ ps_boot.r_toggle /\ ~AsyncBootloaderReq

\* Both clocks keep ticking: every domain eventually sees its next edge,
\* alone or together with an edge of the other domain.  Nothing is assumed
\* of what the producer and the consumer choose at their edges.
FairXClk ==
    /\ XInit /\ [][XNext]_vars
    /\ WF_vars(XInEdge \/ XBothEdge)
    /\ WF_vars(XOutEdge \/ XBothEdge)

\* C2: a word presented and held is eventually seen at the out side as
\* out_valid with the presented data and last; and if the consumer keeps
\* coming back to out_ready, the producer eventually sees in_ready.
XClkLive ==
    /\ \A w \in Words :
          (in_valid /\ <<in_data, in_last>> = w /\ Len(outSeq) = Len(inSeq))
          ~> (xclk.out_valid /\ XClkOutWord(in_data, in_last) = w
                /\ Len(outSeq) = Len(inSeq))
    /\ ([]<>out_ready) => (in_valid ~> xclk.in_ready)

XClkLiveWitness ==
    /\ xclk.in_ready /\ in_valid /\ Len(inSeq) = 1 /\ Len(outSeq) = 2

\* C3: in_ready is a one-cycle pulse that answers one out-side acceptance:
\* it is high only while a presented word is waiting whose out-side transfer
\* has happened, never on two consecutive in_ cycles, and the in-side
\* transfer count trails the out-side count by at most one.
AcceptOnce ==
    /\ [](/\ Len(inSeq) <= Len(outSeq)
          /\ Len(outSeq) <= Len(inSeq) + 1
          /\ xclk.in_ready => (in_valid /\ Len(outSeq) = Len(inSeq) + 1))
    /\ [][(in_tick' # in_tick) => ~(xclk.in_ready /\ xclk'.in_ready)]_vars

AcceptOnceWitness ==
    /\ xclk.in_ready /\ Len(inSeq) = 2 /\ Len(outSeq) = 3

\* ----------------------------- NitroMuAcmSync: customization of the core
\* Python truth value of a parameter: bool(v).
Truthy(v) == v \notin {"None", "False", "0", ""}

\* The parameter is taken whenever it is truthy, so that 0 and "" count as
\* left out.
SuppliedTruthy(v) == Truthy(v)

\* kwargs.get(name) is not None
Supplied(v) == v # None

\* Values a caller may give to the parameters.
KwAll == [ vid : {None, "0", "0x1d50"}, pid : {None, "0x6159"},
           vendor : {None, "", "acme"}, product : {None, "bitsy"},
           serial : {None, "0001"}, no_dfu_rt : {None, "False", "True"} ]

\* Parameters of the wrappers of a design that holds two of them.
KwSmall == { NoKwargs, [NoKwargs EXCEPT !.product = "bitsy"],
             [NoKwargs EXCEPT !.vid = "0x1d50", !.no_dfu_rt = "True"] }

\* MuAcmPatcher.load(): the text of cores/no2muacm-bin/muacm.v with its
\* built-in identification fields.
PatcherLoad == [ vid |-> "default", pid |-> "default", vendor |-> "default",
                 product |-> "default", serial |-> "default",
                 dfu_rt |-> "enabled" ]

\* MuAcmPatcher.set_vid/set_pid/set_vendor/set_product/set_serial: the field
\* named by the operation takes the value, no other field changes.
PatcherSet(sf, field, v) == [sf EXCEPT ![field] = v]

\* MuAcmPatcher.disable_dfu_rt()
PatcherDisableDfuRt(sf) == [sf EXCEPT !.dfu_rt = "disabled"]

\* One patcher call: <<operation, field, argument>>.
PatcherApply(sf, c) ==
    IF c[1] = "disable_dfu_rt" THEN PatcherDisableDfuRt(sf)
    ELSE IF c[1] \in {"load", "save"} THEN sf
    ELSE PatcherSet(sf, c[2], c[3])

RECURSIVE PatcherRun(_, _)
PatcherRun(sf, calls) ==
    IF calls = <<>> THEN sf
    ELSE PatcherRun(PatcherApply(sf, Head(calls)), Tail(calls))

SetCall(kw, field) ==
    IF Supplied(kw[field]) THEN << <<"set_" \o field, field, kw[field]>> >>
    ELSE <<>>

\* gen_customized_ip: the patcher calls it makes for the parameters kw, in
\* program order.
GenCalls(kw) ==
    << <<"load", "", "">> >>
    \o SetCall(kw, "vid") \o SetCall(kw, "pid") \o SetCall(kw, "vendor")
    \o SetCall(kw, "product") \o SetCall(kw, "serial")
    \o (IF Truthy(kw.no_dfu_rt) = TRUE
        THEN << <<"disable_dfu_rt", "", "">> >> ELSE <<>>)
    \o << <<"save", "", "">> >>

\* Patcher operations that may raise.
PatcherOps == {"load", "set_vid", "set_pid", "set_vendor", "set_product",
               "set_serial", "disable_dfu_rt", "save"}

\* Position of the first call of operation op in calls, 0 if there is none.
FirstCall(calls, op) ==
    IF \E k \in 1..Len(calls) : calls[k][1] = op
    THEN CHOOSE k \in 1..Len(calls) :
            calls[k][1] = op /\ \A j \in 1..(k - 1) : calls[j][1] # op
    ELSE 0

\* gen_customized_ip with the patcher raising in operation fault ("none":
\* no operation raises).  ok: it returned; calls: the calls made, the raising
\* one included; tmp: the NamedTemporaryFile was created; text: what the
\* save wrote.
GenCustomizedIp(kw, fault) ==
    LET calls == GenCalls(kw)
        k     == FirstCall(calls, fault)
        ok    == k = 0
        made  == IF ok THEN calls ELSE SubSeq(calls, 1, k)
    IN  [ ok    |-> ok,
          calls |-> made,
          tmp   |-> ok \/ fault = "save",
          text  |-> IF ok THEN PatcherRun(PatcherLoad, calls) ELSE NoText ]

\* ------------------------------------- construction and elaboration
\* The four ways a design obtains a core: NitroMuAcmSync, NitroMuAcmAsync,
\* NitroMuAcmBuffered(sync=True) and NitroMuAcmBuffered(sync=False).
Kinds == {"Sync", "Async", "BufferedSync", "BufferedAsync"}

\* The class the design instantiates.
Top(kind) == CASE kind = "Sync"  -> "NitroMuAcmSync"
               [] kind = "Async" -> "NitroMuAcmAsync"
               [] OTHER          -> "NitroMuAcmBuffered"

\* The objects whose __init__ runs: the wrapper and the wrappers it owns.
Chain(kind) ==
    CASE kind = "Sync"         -> {"NitroMuAcmSync"}
      [] kind = "Async"        -> {"NitroMuAcmAsync", "NitroMuAcmSync"}
      [] kind = "BufferedSync" -> {"NitroMuAcmBuffered", "NitroMuAcmSync"}
      [] OTHER -> {"NitroMuAcmBuffered", "NitroMuAcmAsync", "NitroMuAcmSync"}

\* The outer wrappers going on without the core they could not build.
ReturnedOuter(kind, ok) ==
    IF ok THEN Chain(kind) ELSE Chain(kind) \ {"NitroMuAcmSync"}

\* The objects whose __init__ returned, ok telling whether gen_customized_ip
\* did: no __init__ handles the exception, so it leaves them all.
Returned(kind, ok) == IF ok THEN Chain(kind) ELSE {}

\* tempfile.NamedTemporaryFile: a name no other temporary file has.
FreshName == Cardinality({j \in Insts : inst[j].ip_name # 0}) + 1

\* Platform.add_file(name, content): a name that was added with another
\* content is refused, and the elaboration of the design ends there.
PlatformAddFile(pf, name, content) ==
    IF pf.extra_files[name] \notin {NoText, content}
    THEN [pf EXCEPT !.failed = TRUE]
    ELSE [pf EXCEPT !.extra_files[name] = content]

\* A design with one wrapper of any kind and any parameters, or with two
\* wrappers drawing their parameters from KwSmall.
EInit ==
    /\ xclk = XClkInit
    /\ in_valid = FALSE
    /\ in_data = 0
    /\ in_last = FALSE
    /\ out_ready = FALSE
    /\ in_tick = FALSE
    /\ out_tick = FALSE
    /\ inSeq = <<>>
    /\ outSeq = <<>>
    /\ BufRegsInit
    /\ CoreIdle
    /\ PorRegsInit
    /\ BootRegsInit
    /\ platform = PlatformInit
    /\ meta = MetaInit
    /\ pace = PaceInit
    /\ \/ \E k \in Kinds, kw \in KwAll :
             inst = [i \in Insts |->
                       IF i = 1 THEN [InstAbsent EXCEPT !.kind = k, !.kw = kw,
                                                        !.state = "new"]
                       ELSE InstAbsent]
       \/ \E ks \in [Insts -> {"Sync", "BufferedAsync"}],
             kws \in [Insts -> KwSmall] :
             inst = [i \in Insts |->
                       [InstAbsent EXCEPT !.kind = ks[i], !.kw = kws[i],
                                          !.state = "new"]]

\* The design constructs wrapper i: __init__ of the wrapper and of the
\* wrappers it owns, gen_customized_ip included; the patcher may raise in
\* any one of its operations.
Construct(i) ==
    /\ inst[i].state = "new"
    /\ \E fault \in PatcherOps \cup {"none"} :
          LET g    == GenCustomizedIp(inst[i].kw, fault)
              objs == Returned(inst[i].kind, g.ok)
          IN  inst' = [inst EXCEPT ![i] =
                  [ kind    |-> inst[i].kind,
                    kw      |-> inst[i].kw,
                    state   |-> IF Top(inst[i].kind) \in objs
                                THEN "built" ELSE "failed",
                    calls   |-> g.calls,
                    ip_name |-> IF g.tmp THEN FreshName ELSE 0,
                    ip_text |-> g.text,
                    objs    |-> objs ]]
    /\ UNCHANGED <<platform, meta, pace>>
    /\ UNCHANGED <<xvars, envvars, inSeq, outSeq, bufvars, porvars, bootvars>>

\* The platform elaborates wrapper i: the elaborate of the wrapper and of
\* the wrappers it owns, down to NitroMuAcmSync.elaborate, which adds the
\* patched source under the name muacm.v and emits Instance("muacm").
Elaborate(i) ==
    /\ inst[i].state = "built"
    /\ ~platform.failed
    /\ LET pf == IF "NitroMuAcmSync" \in inst[i].objs
                 THEN PlatformAddFile(platform, "muacm.v", inst[i].ip_text)
                 ELSE [platform EXCEPT !.failed = TRUE]
       IN  /\ platform' = IF pf.failed THEN pf
                          ELSE [pf EXCEPT !.instances = @ \cup {i}]
           /\ inst' = [inst EXCEPT ![i].state =
                          IF pf.failed THEN "elab_failed" ELSE "elaborated"]
    /\ UNCHANGED <<meta, pace>>
    /\ UNCHANGED <<xvars, envvars, inSeq, outSeq, bufvars, porvars, bootvars>>

ENext == \E i \in Insts : Construct(i) \/ Elaborate(i)

SpecElab == EInit /\ [][ENext]_vars

\* The patcher raised while wrapper i was constructed.
Raised(i) ==
    /\ inst[i].state \notin {"absent", "new"}
    /\ inst[i].calls[Len(inst[i].calls)][1] # "save" \/ inst[i].ip_text = NoText

\* The operations the patcher was asked for while wrapper i was constructed.
OpsOf(i) == {inst[i].calls[k][1] : k \in 1..Len(inst[i].calls)}

\* C11: once elaborated, every wrapper of a design has its own muacm
\* instance, built from the patched source that carries the wrapper's own
\* customization, and its own temporary file.
InstancesIndependent ==
    /\ \A i \in Insts :
          inst[i].state \in {"elaborated", "elab_failed"}
          => /\ i \in platform.instances
             /\ platform.extra_files["muacm.v"] = inst[i].ip_text
    /\ \A i, j \in Insts :
          (i # j /\ inst[i].ip_name # 0) => inst[i].ip_name # inst[j].ip_name

\* C12: gen_customized_ip asks the patcher for set_<field> exactly for the
\* fields given a value other than None, with that value, and for
\* disable_dfu_rt exactly when no_dfu_rt is truthy; the saved text has the
\* given values, the built-in value in every field left out, and is the
\* vendored text when no parameter was given.
CustomizationExact ==
    \A i \in Insts :
       (inst[i].state \notin {"absent", "new"} /\ ~Raised(i))
       => LET kw == inst[i].kw
              c  == inst[i].calls
          IN  /\ \A f \in {"vid", "pid", "vendor", "product", "serial"} :
                    /\ ("set_" \o f \in OpsOf(i)) <=> (kw[f] # None)
                    /\ \A k \in 1..Len(c) : c[k][2] = f => c[k][3] = kw[f]
                    /\ Cardinality({k \in 1..Len(c) : c[k][2] = f}) <= 1
                    /\ inst[i].ip_text[f] =
                          IF kw[f] # None THEN kw[f] ELSE PatcherLoad[f]
              /\ ("disable_dfu_rt" \in OpsOf(i)) <=> Truthy(kw.no_dfu_rt)
              /\ inst[i].ip_text.dfu_rt =
                    IF Truthy(kw.no_dfu_rt) THEN "disabled" ELSE "enabled"
              /\ kw = NoKwargs => inst[i].ip_text = PatcherLoad

CustomizationExactWitness ==
    /\ inst[1].state = "elaborated"
    /\ inst[1].kw.vid = "0" /\ inst[1].kw.vendor = ""
    /\ inst[1].kw.product = None /\ inst[1].kw.no_dfu_rt = "False"
    /\ inst[1].ip_text.vid = "0" /\ inst[1].ip_text.vendor = ""
    /\ inst[1].ip_text.product = "default"
    /\ inst[1].ip_text.dfu_rt = "enabled"

\* C13: when the patcher raises while a wrapper is constructed, whatever
\* its kind, no object of the wrapper exists, the wrapper is never
\* elaborated, it adds no muacm.v and emits no muacm instance.
FailFast ==
    /\ [](\A i \in Insts :
             Raised(i) => /\ inst[i].objs = {}
                          /\ inst[i].state = "failed"
                          /\ i \notin platform.instances)
    /\ []((\A i \in Insts : inst[i].state = "absent" \/ Raised(i))
             => platform = PlatformInit)
    /\ [][\A i \in Insts : Raised(i) => inst'[i] = inst[i]]_vars

FailFastWitness ==
    /\ inst[1].kind = "BufferedAsync" /\ Raised(1)
    /\ "set_product" \in OpsOf(1) /\ "set_serial" \notin OpsOf(1)
    /\ inst[1].kw.serial # None
    /\ inst[2].state = "absent"
    /\ platform = PlatformInit

\* ------------------- NitroMuAcmXClk with first stages sampled in transition
\* m.d.in_ with the three readers of ack_sync_in[0] named: a_send is what the
\* send_in logic sees of it, a_stage what ack_sync_in[1] captures and a_ready
\* what the in_ready logic sees.  The three agree when ack_sync_in[0] holds a
\* settled value.
XClkInEdgeSeen(x, valid, a_send, a_stage, a_ready) ==
    [ x EXCEPT
        !.send_in      = (x.send_in \/ (valid /\ ~x.in_ready)) /\ ~a_send,
        !.ack_sync_in1 = a_stage,
        !.ack_sync_in0 = x.ack_out,
        !.in_ready     = a_ready /\ ~x.ack_sync_in1 ]

\* m.d.out with the three readers of send_sync_out[0] named: s_stage is what
\* send_sync_out[1] captures, s_valid what the out_valid logic sees and s_ack
\* what the ack_out logic sees.
XClkOutEdgeSeen(x, ready, s_stage, s_valid, s_ack) ==
    [ x EXCEPT
        !.send_sync_out1 = s_stage,
        !.send_sync_out0 = x.send_in,
        !.out_valid      = (x.out_valid /\ ~ready)
                              \/ (s_valid /\ ~x.send_sync_out1),
        !.ack_out        = (x.ack_out /\ s_ack) \/ (x.out_valid /\ ready) ]

\* What one reader may see of a first stage holding v: v itself, or either
\* level during the cycle that follows a sample taken while the source
\* changed.
Seen(unsettled, v) == IF unsettled THEN BOOLEAN ELSE {v}

\* Whether a first stage may have sampled its source while the source
\* changed: only when the source changed at the latest edge of its own
\* domain and the sampling edge is the first to follow it.
MaySample(fresh) == IF fresh THEN BOOLEAN ELSE {FALSE}

MInit ==
    /\ xclk = XClkInit
    /\ in_valid = FALSE
    /\ in_data = 0
    /\ in_last = FALSE
    /\ out_ready \in BOOLEAN
    /\ in_tick = FALSE
    /\ out_tick = FALSE
    /\ inSeq = <<>>
    /\ outSeq = <<>>
    /\ BufRegsInit
    /\ CoreIdle
    /\ PorRegsInit
    /\ BootRegsInit
    /\ AuxInit

MInEdge ==
    /\ \E a_send, a_stage, a_ready \in Seen(meta.ack_meta, xclk.ack_sync_in0) :
          xclk' = XClkInEdgeSeen(xclk, in_valid, a_send, a_stage, a_ready)
    /\ \E m \in MaySample(meta.ack_fresh) :
          meta' = [ send_fresh |-> xclk'.send_in # xclk.send_in,
                    ack_fresh  |-> FALSE,
                    send_meta  |-> meta.send_meta,
                    ack_meta   |-> m ]
    /\ inSeq' = IF in_valid /\ xclk.in_ready
                THEN Append(inSeq, <<in_data, in_last>>) ELSE inSeq
    /\ BufProducerNext(in_valid, xclk.in_ready, in_data, in_last,
                       Len(inSeq') < MetaWords, in_valid', in_data', in_last')
    /\ in_tick' = ~in_tick
    /\ UNCHANGED <<out_ready, out_tick, outSeq, bufvars, porvars, bootvars>>
    /\ UNCHANGED <<inst, platform, pace>>

MOutEdge ==
    /\ Len(outSeq) <= MetaWords
    /\ \E s_stage, s_valid, s_ack
             \in Seen(meta.send_meta, xclk.send_sync_out0) :
          xclk' = XClkOutEdgeSeen(xclk, out_ready, s_stage, s_valid, s_ack)
    /\ \E m \in MaySample(meta.send_fresh) :
          meta' = [ send_fresh |-> FALSE,
                    ack_fresh  |-> xclk'.ack_out # xclk.ack_out,
                    send_meta  |-> m,
                    ack_meta   |-> meta.ack_meta ]
    /\ outSeq' = IF xclk.out_valid /\ out_ready
                 THEN Append(outSeq, XClkOutWord(in_data, in_last)) ELSE outSeq
    /\ out_ready' \in BOOLEAN
    /\ out_tick' = ~out_tick
    /\ UNCHANGED <<in_valid, in_data, in_last, in_tick, inSeq, bufvars,
                   porvars, bootvars>>
    /\ UNCHANGED <<inst, platform, pace>>

\* The two edges coincide: a source that changes at this edge is sampled
\* while it changes.  (As in MOutEdge, the out side is followed until it has
\* transferred more words than were ever presented.)
MBothEdge ==
    /\ Len(outSeq) <= MetaWords
    /\ \E a_send, a_stage, a_ready \in Seen(meta.ack_meta, xclk.ack_sync_in0),
          s_stage, s_valid, s_ack
             \in Seen(meta.send_meta, xclk.send_sync_out0) :
          xclk' = [ XClkInEdgeSeen(xclk, in_valid, a_send, a_stage, a_ready)
                    EXCEPT
                      !.send_sync_out1 = s_stage,
                      !.send_sync_out0 = xclk.send_in,
                      !.out_valid =
                          XClkOutEdgeSeen(xclk, out_ready, s_stage, s_valid,
                                          s_ack).out_valid,
                      !.ack_out =
                          XClkOutEdgeSeen(xclk, out_ready, s_stage, s_valid,
                                          s_ack).ack_out ]
    /\ \E ms \in MaySample(xclk'.send_in # xclk.send_in),
          ma \in MaySample(xclk'.ack_out # xclk.ack_out) :
          meta' = [ send_fresh |-> FALSE, ack_fresh |-> FALSE,
                    send_meta |-> ms, ack_meta |-> ma ]
    /\ inSeq' = IF in_valid /\ xclk.in_ready
                THEN Append(inSeq, <<in_data, in_last>>) ELSE inSeq
    /\ outSeq' = IF xclk.out_valid /\ out_ready
                 THEN Append(outSeq, XClkOutWord(in_data, in_last)) ELSE outSeq
    /\ BufProducerNext(in_valid, xclk.in_ready, in_data, in_last,
                       Len(inSeq') < MetaWords, in_valid', in_data', in_last')
    /\ out_ready' \in BOOLEAN
    /\ in_tick' = ~in_tick
    /\ out_tick' = ~out_tick
    /\ UNCHANGED <<bufvars, porvars, bootvars>>
    /\ UNCHANGED <<inst, platform, pace>>

MNext == MInEdge \/ MOutEdge \/ MBothEdge

SpecMeta == MInit /\ [][MNext]_vars

\* A presented word whose send flag has passed both stages of the out domain
\* without out_valid or ack_out ever being raised for it: no register
\* changes any more, the word is never transferred.
TransferLost ==
    /\ in_valid /\ xclk.send_in /\ ~xclk.in_ready
    /\ xclk.send_sync_out0 /\ xclk.send_sync_out1 /\ ~meta.send_meta
    /\ ~xclk.out_valid /\ ~xclk.ack_out
    /\ ~xclk.ack_sync_in0 /\ ~xclk.ack_sync_in1 /\ ~meta.ack_meta

\* C14: a first-stage sample that its readers resolve differently causes no
\* lost, duplicated or spurious transfer and no missing in_ready pulse: the
\* out side transfers the presented words once each, the in side trails it
\* by at most one word, and no word is left stuck.
MetaSafe ==
    /\ IsPrefix(inSeq, outSeq)
    /\ IsPrefix(outSeq, Presented)
    /\ Len(outSeq) <= Len(inSeq) + 1
    /\ ~TransferLost

\* ----------------------------- NitroMuAcmXClk between two timed clocks
\* The in_ clock has period pace.pin and the out clock period pace.pout (in
\* time units); pace.tin and pace.tout are the times left to their next
\* edges.  The producer always has a word valid, the consumer is always
\* ready.  pace.gap is the time since the latest transfer at the out side,
\* pace.last the time between the latest two.
Max(a, b) == IF a > b THEN a ELSE b

\* Longest time the model measures.
PaceCap == 10 * (MaxPeriod + 1)

QInit ==
    /\ xclk = XClkInit
    /\ in_valid = TRUE
    /\ \E w \in BufWords : in_data = w[1] /\ in_last = w[2]
    /\ out_ready = TRUE
    /\ in_tick = FALSE
    /\ out_tick = FALSE
    /\ inSeq = <<>>
    /\ outSeq = <<>>
    /\ BufRegsInit
    /\ CoreIdle
    /\ PorRegsInit
    /\ BootRegsInit
    /\ inst = [i \in Insts |-> InstAbsent]
    /\ platform = PlatformInit
    /\ meta = MetaInit
    /\ \E pi, po \in 1..MaxPeriod :
          \E ti \in 1..pi, to \in 1..po :
             pace = [ pin |-> pi, pout |-> po, tin |-> ti, tout |-> to,
                      gap |-> 0, last |-> 0 ]

\* Time advances by d to the next edge: an edge of the in_ domain iff s, of
\* the out domain iff u.
PaceStep(s, u, d) ==
    /\ xclk' = XClkStep(xclk, s, u, in_valid, out_ready)
    /\ inSeq' = IF s /\ in_valid /\ xclk.in_ready
                THEN Append(inSeq, <<in_data, in_last>>) ELSE inSeq
    /\ outSeq' = IF u /\ xclk.out_valid /\ out_ready
                 THEN Append(outSeq, XClkOutWord(in_data, in_last)) ELSE outSeq
    /\ IF s /\ in_valid /\ xclk.in_ready
       THEN /\ in_valid' = (Len(inSeq') < MaxWords)
            /\ \E w \in BufWords : in_data' = w[1] /\ in_last' = w[2]
       ELSE UNCHANGED <<in_valid, in_data, in_last>>
    /\ out_ready' = TRUE
    /\ in_tick' = (in_tick # s)
    /\ out_tick' = (out_tick # u)
    /\ pace' = [ pace EXCEPT
                   !.tin  = IF s THEN pace.pin ELSE pace.tin - d,
                   !.tout = IF u THEN pace.pout ELSE pace.tout - d,
                   !.gap  = IF outSeq' # outSeq THEN 0
                            ELSE Min(pace.gap + d, PaceCap),
                   !.last = IF outSeq' # outSeq /\ outSeq # <<>>
                            THEN Min(pace.gap + d, PaceCap) ELSE pace.last ]
    /\ UNCHANGED <<bufvars, porvars, bootvars, inst, platform, meta>>

QInEdge == pace.tin < pace.tout /\ PaceStep(TRUE, FALSE, pace.tin)

QOutEdge == pace.tout < pace.tin /\ PaceStep(FALSE, TRUE, pace.tout)

QBothEdge == pace.tin = pace.tout /\ PaceStep(TRUE, TRUE, pace.tin)

QNext == QInEdge \/ QOutEdge \/ QBothEdge

SpecPace == QInit /\ [][QNext]_vars

\* The period of the slower clock.
SlowPeriod == Max(pace.pin, pace.pout)

\* Both domains on one clock: same period, edges at the same instants.
SameClock == pace.pin = pace.pout /\ pace.tin = pace.tout

\* C15 as stated: consecutive words are transferred at most 4 cycles of the
\* slower domain apart.
PaceFour ==
    /\ pace.last <= 4 * SlowPeriod
    /\ (in_valid /\ outSeq # <<>>) => pace.gap < 4 * SlowPeriod

\* C15 as amended: consecutive words are transferred at most 9 cycles of the
\* slower domain apart, and exactly 9 cycles apart on one clock.
PaceNine ==
    /\ pace.last <= 9 * SlowPeriod
    /\ in_valid => pace.gap < 9 * SlowPeriod
    /\ SameClock => pace.last \in {0, 9 * SlowPeriod}

PaceNineWitness ==
    /\ SameClock /\ pace.pin = 2 /\ pace.last = 18 /\ pace.gap = 0
    /\ Len(outSeq) = 3

\* --------------------------- NitroMuAcmXClk: out side and handshake order
\* C16: out_valid stays high over every out edge without out_ready; at an
\* out edge with out_ready it clears unless a rising edge of the
\* synchronized send flag is seen at that edge; it changes at out edges
\* only; and while it is high the producer's word is still pending at the in
\* side (send flag set, in_ready not pulsed for it), so that out_data and
\* out_last do not change.
OutContract ==
    /\ [](xclk.out_valid =>
             /\ in_valid /\ xclk.send_in /\ ~xclk.in_ready
             /\ Len(inSeq) = Len(outSeq))
    /\ [][(out_tick' # out_tick /\ xclk.out_valid /\ ~out_ready)
             => xclk'.out_valid]_vars
    /\ [][(out_tick' # out_tick /\ xclk.out_valid /\ out_ready)
             => (xclk'.out_valid
                   <=> (xclk.send_sync_out0 /\ ~xclk.send_sync_out1))]_vars
    /\ [][(out_tick' = out_tick) => (xclk'.out_valid = xclk.out_valid)]_vars
    /\ [][xclk.out_valid
             => XClkOutWord(in_data', in_last') = XClkOutWord(in_data, in_last)
          ]_vars

OutContractWitness ==
    /\ xclk.out_valid /\ ~out_ready /\ xclk.send_sync_out1
    /\ Len(outSeq) = 2 /\ Len(inSeq) = 2 /\ in_tick # out_tick

\* C17: the four phases of one word follow each other in order.  out_valid
\* rises only for a set send flag; ack_out rises exactly at the acceptance;
\* the send flag is cleared exactly when in_ready rises, with ack_out high;
\* ack_out is released only after in_ready rose and the out domain sampled
\* the send flag low; the send flag is set only with the synchronized ack
\* low; and out_valid rises for a word only after the in-side transfer of
\* the word before it.
HandshakeOrder ==
    /\ [][(~xclk.out_valid /\ xclk'.out_valid)
             => (xclk.send_in /\ xclk.send_sync_out0 /\ ~xclk.ack_out
                   /\ Len(inSeq) = Len(outSeq))]_vars
    /\ [][(~xclk.ack_out /\ xclk'.ack_out) <=> (outSeq' # outSeq)]_vars
    /\ [][(~xclk.in_ready /\ xclk'.in_ready)
             <=> (xclk.send_in /\ ~xclk'.send_in)]_vars
    /\ [][(~xclk.in_ready /\ xclk'.in_ready)
             => (xclk.ack_out /\ xclk.ack_sync_in0
                   /\ Len(outSeq) = Len(inSeq) + 1)]_vars
    /\ [][(xclk.ack_out /\ ~xclk'.ack_out)
             => (/\ ~xclk.send_sync_out0 /\ ~xclk.send_in
                 /\ xclk.in_ready \/ Len(inSeq) = Len(outSeq))]_vars
    /\ [][(~xclk.send_in /\ xclk'.send_in)
             => (~xclk.ack_sync_in0 /\ ~xclk.ack_out
                   /\ Len(inSeq) = Len(outSeq))]_vars

HandshakeOrderWitness ==
    /\ ~xclk.ack_out /\ ~xclk.ack_sync_in0 /\ ~xclk.ack_sync_in1
    /\ in_valid /\ xclk.send_in /\ ~xclk.send_sync_out0
    /\ Len(inSeq) = 2 /\ Len(outSeq) = 2

\* --------------------------------- iCEBreaker LoopbackTest: FIFO capacity
\* Default of the fifo_depth parameter of NitroMuAcmBuffered.
DefaultFifoDepth == 4

\* The wrapper instantiated without a fifo_depth argument.
IceFifoDepthOmitted == DefaultFifoDepth

\* NitroMuAcmBuffered(usb_pads, fifo_depth=256)
IceFifoDepth == 256

\* The word the core sends while the FIFOs are filled.
IceWord == <<90, TRUE>>

IInit ==
    /\ xclk = XClkInit
    /\ in_valid = FALSE
    /\ in_data = 0
    /\ in_last = FALSE
    /\ out_ready = FALSE
    /\ in_tick = FALSE
    /\ out_tick = FALSE
    /\ inSeq = <<>>
    /\ outSeq = <<>>
    /\ BufRegsInit
    /\ CoreIdle
    /\ PorRegsInit
    /\ BootRegsInit
    /\ AuxInit

\* A sync edge of the two FIFOs of the wrapper in the loopback: the write
\* side of fifo_out is driven by the adapter coming from the core (w_en),
\* the read side of fifo_in by the adapter going to the core (r_en); the
\* read side of fifo_out feeds the write side of fifo_in.
IceEdge(w_en, r_en) ==
    /\ fout' = FifoEdgeAt(fout, IceFifoDepth, w_en,
                          FoutWData(IceWord[1], IceWord[2]),
                          FifoWRdyAt(fin, IceFifoDepth))
    /\ fin' = FifoEdgeAt(fin, IceFifoDepth, fout.r_rdy,
                         FinWData(LoopInData, LoopInLast), r_en)
    /\ in_tick' = ~in_tick
    /\ UNCHANGED <<xclk, out_tick, envvars, inSeq, outSeq, xin, xout, corevars,
                   coreInSeq, coreOutSeq, popSeq, porvars, bootvars, auxvars>>

\* The host keeps sending and the echo is not drained.
IceFill == IceEdge(TRUE, FALSE)

\* The host is idle and the echo is drained.
IceDrain == IceEdge(FALSE, TRUE)

IceBoth == IceEdge(TRUE, TRUE)

IceIdle == IceEdge(FALSE, FALSE)

INext == IceFill \/ IceDrain \/ IceBoth \/ IceIdle

SpecIce == IInit /\ [][INext]_vars

\* C19 as stated: the FIFOs of the iCEBreaker design hold at most
\* DefaultFifoDepth words, and a FIFO holding that many is not ready for a
\* write.
IceDepthDefault ==
    \A f \in {fin, fout} :
       /\ FifoLevel(f) <= DefaultFifoDepth
       /\ FifoLevel(f) = DefaultFifoDepth => ~FifoWRdyAt(f, IceFifoDepth)

\* C19 as amended: the FIFOs of the iCEBreaker design hold at most 256
\* words, a FIFO holding 256 is not ready for a write, and a FIFO whose
\* storage ahead of the output register holds fewer than 255 is.
IceDepth ==
    \A f \in {fin, fout} :
       /\ FifoLevel(f) <= 256
       /\ FifoLevel(f) = 256 => ~FifoWRdyAt(f, IceFifoDepth)
       /\ Len(f.q) < 255 => FifoWRdyAt(f, IceFifoDepth)

IceDepthWitness ==
    /\ FifoLevel(fin) = 256 /\ FifoLevel(fout) = 256
    /\ ~FifoWRdyAt(fin, IceFifoDepth) /\ ~FifoWRdyAt(fout, IceFifoDepth)

====
